---- MODULE Spec2Model ----
(***************************************************************************)
(* A model of parsel: the extended path expression and the pseudo-element  *)
(* dispatcher (csstranslator.py), the regex extraction policy (utils.py)   *)
(* and the Selector object (selector.py).                                  *)
(*                                                                         *)
(* Python values are records [ty, v, items]: ty is the class name and v    *)
(* the value's str() form, so that isinstance, truthiness, `is True` and   *)
(* str() are computed as the interpreter computes them.  Python strings    *)
(* are TLA+ strings; an Optional[str] is <<>> (None) or <<s>>.             *)
(***************************************************************************)
EXTENDS Integers, Sequences, FiniteSets, TLC

VARIABLES
    expr,   \* csstranslator: the last XPathExpr call, its input and its outcome
    rx,     \* utils: the last extract_regex call, its input and its outcome
    sels,   \* selector: the Selector objects constructed so far, in order
    heap,   \* selector: the dict objects; heap[1] is Selector._default_namespaces
    tree,   \* lxml: the document tree, node -> sequence of its children
    nslog,  \* history: per Selector, the namespaces it was built with and its register calls
    last    \* selector: the last Selector call, its arguments and its outcome

vars == <<expr, rx, sels, heap, tree, nslog, last>>

None == <<>>

(***************************************************************************)
(* csstranslator.py                                                        *)
(***************************************************************************)

EndsWith(s, suffix) ==
    /\ Len(s) >= Len(suffix)
    /\ SubSeq(s, Len(s) - Len(suffix) + 1, Len(s)) = suffix

\* s[:-n]
DropLast(s, n) == SubSeq(s, 1, Len(s) - n)

\* cssselect's XPathExpr(path, element): condition defaults to ''.
OriginalXPathExpr(path, element, condition) ==
    [cls |-> "OriginalXPathExpr", path |-> path, element |-> element,
     condition |-> condition, textnode |-> FALSE, attribute |-> None]

\* The subclass, with the class attributes textnode = False, attribute = None.
XPathExpr(path, element) ==
    [cls |-> "XPathExpr", path |-> path, element |-> element,
     condition |-> "", textnode |-> FALSE, attribute |-> None]

\* super().__str__(): path + element, then [condition] when there is one.
OriginalStr(e) ==
    LET path == e.path \o e.element
    IN  IF e.condition # "" THEN path \o "[" \o e.condition \o "]" ELSE path

\* __str__ without the idiom's case in the attribute rule.
XPathExpr_str_KeepIdiom(e) ==
    LET path0 == OriginalStr(e)
        path1 == IF e.textnode
                 THEN IF path0 = "*" THEN "text()"
                      ELSE IF EndsWith(path0, "::*/*")
                           THEN DropLast(path0, 3) \o "text()"
                           ELSE path0 \o "/text()"
                 ELSE path0
    IN  IF e.attribute # None
        THEN path1 \o "/@" \o e.attribute[1]
        ELSE path1

XPathExpr_str(e) ==
    LET path0 == OriginalStr(e)
        path1 == IF e.textnode
                 THEN IF path0 = "*" THEN "text()"
                      ELSE IF EndsWith(path0, "::*/*")
                           THEN DropLast(path0, 3) \o "text()"
                           ELSE path0 \o "/text()"
                 ELSE path0
    IN  IF e.attribute # None
        THEN (IF EndsWith(path1, "::*/*") THEN DropLast(path1, 2) ELSE path1)
                 \o "/@" \o e.attribute[1]
        ELSE path1

\* str(xpath), by the class of the object.
Str(e) == IF e.cls = "XPathExpr" THEN XPathExpr_str(e) ELSE OriginalStr(e)

xpath_text_simple_pseudo_element(xpath) ==
    [exc |-> "", ret |-> [XPathExpr(xpath.path, xpath.element) EXCEPT !.textnode = TRUE]]

xpath_attr_functional_pseudo_element(xpath, function) ==
    IF function.arguments = <<>>
    THEN [exc |-> "ExpressionError", ret |-> xpath]
    ELSE [exc |-> "",
          ret |-> [XPathExpr(xpath.path, xpath.element)
                       EXCEPT !.attribute = <<function.arguments[1]>>]]

\* The dispatch; ret is meaningful only when exc = "".
xpath_pseudo_element(xpath, pseudo_element) ==
    IF pseudo_element.cls = "FunctionalPseudoElement" /\ pseudo_element.name = "attr"
    THEN xpath_attr_functional_pseudo_element(xpath, pseudo_element)
    ELSE IF pseudo_element.cls = "PseudoElement" /\ pseudo_element.name = "text"
         THEN xpath_text_simple_pseudo_element(xpath)
         ELSE [exc |-> "", ret |-> xpath]

\* The inputs of the translator's calls.
Paths == {"", "descendant-or-self::", "descendant-or-self::*/"}
Elements == {"*", "a"}
Conditions == {"", "@href"}
AttrNames == {"href", "id"}

CompiledPaths ==
    {OriginalXPathExpr(p, el, c) : p \in Paths, el \in Elements, c \in Conditions}

ExtendedPaths ==
    {[cls |-> "XPathExpr", path |-> p, element |-> el, condition |-> c,
      textnode |-> t, attribute |-> a] :
        p \in Paths, el \in Elements, c \in Conditions, t \in BOOLEAN,
        a \in {None} \cup {<<n>> : n \in AttrNames}}

PseudoElements ==
    {[cls |-> "FunctionalPseudoElement", name |-> n, arguments |-> args] :
        n \in {"attr", "lang"},
        args \in {<<>>} \cup {<<a>> : a \in AttrNames} \cup {<<"href", "id">>}}
    \cup {[cls |-> "PseudoElement", name |-> n, arguments |-> <<>>] :
            n \in {"text", "first-line"}}

NoPseudo == [cls |-> "PseudoElement", name |-> "", arguments |-> <<>>]

ExprIdle ==
    expr = [op |-> "", pc |-> "done", in |-> OriginalXPathExpr("", "*", ""),
            pseudo |-> NoPseudo, exc |-> "", out |-> OriginalXPathExpr("", "*", ""),
            str |-> ""]

\* A call about to be made: str(e) on an extended path expression, or
\* translator.xpath_pseudo_element(xpath, pseudo_element) on a compiled path.
ExprCalls ==
    {[op |-> "__str__", pc |-> "call", in |-> e, pseudo |-> NoPseudo, exc |-> "",
      out |-> e, str |-> ""] : e \in ExtendedPaths}
    \cup {[op |-> "xpath_pseudo_element", pc |-> "call", in |-> x, pseudo |-> pe,
           exc |-> "", out |-> x, str |-> ""] :
            x \in CompiledPaths, pe \in PseudoElements}

\* str(e)
StrCall ==
    /\ expr.pc = "call" /\ expr.op = "__str__"
    /\ expr' = [expr EXCEPT !.pc = "done", !.str = XPathExpr_str(expr.in)]
    /\ UNCHANGED <<rx, sels, heap, tree, nslog, last>>

\* translator.xpath_pseudo_element(xpath, pseudo_element), then str() of what
\* it returned (selector_to_xpath renders the returned expression).
PseudoElementCall ==
    /\ expr.pc = "call" /\ expr.op = "xpath_pseudo_element"
    /\ LET r == xpath_pseudo_element(expr.in, expr.pseudo)
       IN  expr' = [expr EXCEPT !.pc = "done", !.exc = r.exc, !.out = r.ret,
                                !.str = IF r.exc = "" THEN Str(r.ret) ELSE ""]
    /\ UNCHANGED <<rx, sels, heap, tree, nslog, last>>

(***************************************************************************)
(* Python values                                                           *)
(***************************************************************************)

PyNone == [ty |-> "NoneType", v |-> "None", items |-> <<>>]
PyStrV(s) == [ty |-> "str", v |-> s, items |-> <<>>]
PyBytes(s) == [ty |-> "bytes", v |-> s, items |-> <<>>]
PyInt(s) == [ty |-> "int", v |-> s, items |-> <<>>]
PyBool(b) == [ty |-> "bool", v |-> IF b THEN "True" ELSE "False", items |-> <<>>]
PyTuple(xs) == [ty |-> "tuple", v |-> "", items |-> xs]
PyElement(n) == [ty |-> "Element", v |-> n, items |-> <<>>]
NOT_SET == [ty |-> "object", v |-> "_NOT_SET", items |-> <<>>]

\* bool(x)
Truthy(x) ==
    CASE x.ty = "NoneType" -> FALSE
      [] x.ty = "bool" -> x.v = "True"
      [] x.ty = "int" -> x.v # "0"
      [] x.ty \in {"str", "bytes"} -> x.v # ""
      [] x.ty \in {"tuple", "list"} -> x.items # <<>>
      [] OTHER -> TRUE

\* str(x) of a value that is no container
PyStr(x) == x.v

(***************************************************************************)
(* utils.py                                                                *)
(***************************************************************************)

\* hasattr(x, '__iter__') and not isinstance(x, (str, bytes)), over the values
\* the model passes to flatten: lists and tuples have __iter__, None, str and
\* the numbers have not; a SelectorList is a list, a Selector has no __iter__.
is_listlike(x) == x.ty \in {"list", "tuple", "SelectorList", "SubList"}

RECURSIVE flatten(_)
flatten(x) ==
    IF x = <<>> THEN <<>>
    ELSE LET el == Head(x)
         IN  (IF is_listlike(el) THEN flatten(el.items) ELSE <<el>>)
                 \o flatten(Tail(x))

\* w3lib's replace_entities(text), called without `keep`: every entity of the
\* text is decoded.
w3lib_replace_entities(text) == IF text = "a&amp;b" THEN "a&b" ELSE text

HasExtract(regex) == \E g \in regex.groupindex : g.name = "extract"

ExtractIndex(regex) == (CHOOSE g \in regex.groupindex : g.name = "extract").index

\* extract_regex, after the text is searched: matches is regex.finditer(text).
extract_regex(regex, matches) ==
    LET n == Len(matches)
        extracted ==
            IF HasExtract(regex)
            THEN [i \in 1..n |-> matches[i].groups[ExtractIndex(regex)]]
            ELSE IF regex.groups > 0
                 THEN flatten([i \in 1..n |-> PyTuple(matches[i].groups)])
                 ELSE [i \in 1..n |-> PyStrV(matches[i].whole)]
    IN  [i \in 1..Len(extracted) |-> PyStr(extracted[i])]

MaxGroups == 2
MaxMatches == 2

\* The compiled patterns: the number of groups and the names of some of them.
Regexes ==
    UNION {{[groups |-> g, groupindex |-> gi] :
               gi \in {{}} \cup {{[name |-> n, index |-> i]} :
                                   n \in {"extract", "other"}, i \in 1..g}} :
           g \in 0..MaxGroups}

\* What the regex engine can report for one match of a pattern with g groups:
\* the matched substring and, per group, its capture or None.
MatchesOf(g) ==
    {[whole |-> w, groups |-> gs] :
        w \in {"ab", "a"}, gs \in [1..g -> {PyNone, PyStrV("a")}]}

RegexTexts == {"ab a", "a&amp;b"}

RxIdle ==
    rx = [pc |-> "done", regex |-> [groups |-> 0, groupindex |-> {}], text |-> "",
          replace_entities |-> FALSE, searched |-> "", matches |-> <<>>,
          out |-> <<>>]

\* A call about to be made, before the engine has reported a match.
RxCalls ==
    {[pc |-> "call", regex |-> regex, text |-> text, replace_entities |-> flag,
      searched |-> "", matches |-> <<>>, out |-> <<>>] :
        regex \in Regexes, text \in RegexTexts, flag \in BOOLEAN}

\* The engine: regex.finditer(text) will report one more match.
EngineMatch ==
    /\ rx.pc = "call" /\ Len(rx.matches) < MaxMatches
    /\ \E m \in MatchesOf(rx.regex.groups) :
         rx' = [rx EXCEPT !.matches = Append(@, m)]
    /\ UNCHANGED <<expr, sels, heap, tree, nslog, last>>

\* extract_regex(regex, text, replace_entities)
ExtractRegexCall ==
    /\ rx.pc = "call"
    /\ rx' = [rx EXCEPT !.pc = "done",
                        !.searched = IF rx.replace_entities
                                     THEN w3lib_replace_entities(rx.text)
                                     ELSE rx.text,
                        !.out = extract_regex(rx.regex, rx.matches)]
    /\ UNCHANGED <<expr, sels, heap, tree, nslog, last>>

(***************************************************************************)
(* selector.py: the document and the XPath evaluator                       *)
(***************************************************************************)

Nodes == {"n1", "n2", "n3", "n4"}

\* The parsed document <r><a href="u2"><a href="u4"/></a><b/></r>.
DocRoot == "n1"
DocTree == [n \in Nodes |-> CASE n = "n1" -> <<"n2", "n3">>
                              [] n = "n2" -> <<"n4">>
                              [] OTHER -> <<>>]
Tag(n) == IF n \in {"n2", "n4"} THEN "a" ELSE IF n = "n3" THEN "b" ELSE "r"
Href(n) == IF n = "n2" THEN "u2" ELSE "u4"

Range(f) == {f[i] : i \in DOMAIN f}

\* node.getparent(): <<p>> or None
getparent(t, n) ==
    IF \E p \in Nodes : n \in Range(t[p])
    THEN <<CHOOSE p \in Nodes : n \in Range(t[p])>>
    ELSE None

\* parent.remove(node)
RemoveChild(t, p, n) == [t EXCEPT ![p] = SelectSeq(t[p], LAMBDA c : c # n)]

RECURSIVE DescOrSelf(_, _)
DescOrSelf(t, n) ==
    LET RECURSIVE Each(_)
        Each(cs) == IF cs = <<>> THEN <<>>
                    ELSE DescOrSelf(t, Head(cs)) \o Each(Tail(cs))
    IN  <<n>> \o Each(t[n])

\* The attributes an lxml element has, among those Selector uses.
ElementAttrs == {"xpath", "getparent", "remove", "iter", "tag", "attrib"}

HasAttr(x, name) == x.ty = "Element" /\ name \in ElementAttrs

DocNamespace == "urn:doc"

\* lxml's node.xpath(query, namespaces=nsp): a node-set comes back as a list,
\* a string, number or boolean as itself, an expression lxml rejects raises
\* a subclass of XPathError.  The document's elements are in no namespace.
Evaluate(t, n, query, nsp) ==
    LET elems(ns) == [i \in 1..Len(ns) |-> PyElement(ns[i])]
        as == SelectSeq(DescOrSelf(t, n), LAMBDA d : Tag(d) = "a")
        ok(r) == [exc |-> "", islist |-> TRUE, list |-> r, scalar |-> PyNone]
        one(x) == [exc |-> "", islist |-> FALSE, list |-> <<>>, scalar |-> x]
        err(e) == [exc |-> e, islist |-> FALSE, list |-> <<>>, scalar |-> PyNone]
    IN  CASE query = "*" -> ok(elems(t[n]))
          [] query = "descendant-or-self::a" -> ok(elems(as))
          [] query = "descendant-or-self::a/@href" ->
                ok([i \in 1..Len(as) |-> PyStrV(Href(as[i]))])
          [] query = "string(@href)" ->
                one(PyStrV(IF Tag(n) = "a" THEN Href(n) ELSE ""))
          [] query = "p:*" ->
                IF "p" \notin DOMAIN nsp THEN err("XPathEvalError")
                ELSE ok(<<>>)
          [] query = "*[" -> err("XPathSyntaxError")
          [] OTHER -> ok(<<>>)

(***************************************************************************)
(* selector.py: Selector                                                   *)
(***************************************************************************)

\* _ctgroup: the keys are 'html' and 'xml'.
ctgroup ==
    [k \in {"html", "xml"} |->
        IF k = "html"
        THEN [csstranslator |-> "HTMLTranslator", tostring_method |-> "html"]
        ELSE [csstranslator |-> "GenericTranslator", tostring_method |-> "xml"]]

\* Selector._default_namespaces
default_namespaces ==
    [k \in {"re", "set"} |->
        IF k = "re" THEN "http://exslt.org/regular-expressions"
        ELSE "http://exslt.org/sets"]

\* d.update(e)
Update(d, e) ==
    [k \in DOMAIN d \cup DOMAIN e |-> IF k \in DOMAIN e THEN e[k] ELSE d[k]]

\* d[k] = v
SetItem(d, k, v) == [x \in DOMAIN d \cup {k} |-> IF x = k THEN v ELSE d[x]]

TypeTags == {"html", "json", "text", "xml"}

\* json.loads(text) of the JSON texts of the model
JsonTexts == {"2"}
JsonDecode(text) == PyInt(text)

\* The resolver of a text: an explicit type is respected, a missing one is
\* sniffed from the content and falls back to html; html and xml parse to a
\* tree, json decodes, text keeps the string.
get_root_and_type_from_text(text, input_type) ==
    LET type == IF input_type # None THEN input_type[1]
                ELSE IF text \in JsonTexts THEN "json" ELSE "html"
    IN  [root |-> CASE type = "text" -> PyStrV(text)
                    [] type = "json" -> JsonDecode(text)
                    [] OTHER -> PyElement(DocRoot),
         type |-> type]

\* body.decode(encoding), then as for a text
get_root_and_type_from_bytes(body, input_type) ==
    get_root_and_type_from_text(body.v, input_type)

\* The type of a supplied root: an explicit type is respected, a decoded JSON
\* container is json, and the fallback is html.
get_root_type(root, input_type) ==
    IF input_type # None THEN input_type[1]
    ELSE IF root.ty \in {"dict", "list"} THEN "json" ELSE "html"
NoArgs ==
    [text |-> PyNone, type |-> None, body |-> PyBytes(""), namespaces |-> None,
     root |-> NOT_SET]

Args(text, type, body, namespaces, root) ==
    [text |-> text, type |-> type, body |-> body, namespaces |-> namespaces,
     root |-> root]

NoSelector ==
    [root |-> PyNone, type |-> "", namespaces |-> 0, expr |-> None, text |-> PyNone]

\* Selector.__init__ keeping the class's dict instead of copying it.
Selector_init_SharedDefaults(h, a, expr_) ==
    LET fail(e) == [exc |-> e, warned |-> FALSE, obj |-> NoSelector, heap |-> h]
        made(root, type, warned) ==
            [exc |-> "", warned |-> warned,
             obj |-> [root |-> root, type |-> type, namespaces |-> 1,
                      expr |-> expr_, text |-> a.text],
             heap |-> IF a.namespaces # None
                      THEN [h EXCEPT ![1] = Update(h[1], a.namespaces[1])] ELSE h]
    IN  IF a.type # None /\ a.type[1] \notin TypeTags THEN fail("ValueError")
        ELSE IF a.text = PyNone /\ ~Truthy(a.body) /\ a.root = NOT_SET
        THEN fail("ValueError")
        ELSE IF a.text # PyNone /\ a.text.ty # "str" THEN fail("TypeError")
        ELSE IF a.text # PyNone
        THEN LET rt == get_root_and_type_from_text(a.text.v, a.type)
             IN  made(rt.root, rt.type, a.root # NOT_SET)
        ELSE IF Truthy(a.body)
        THEN IF a.body.ty # "bytes" THEN fail("TypeError")
             ELSE LET rt == get_root_and_type_from_bytes(a.body, a.type)
                  IN  made(rt.root, rt.type, FALSE)
        ELSE IF a.root = NOT_SET THEN fail("ValueError")
        ELSE made(a.root, get_root_type(a.root, a.type), FALSE)

\* Selector.__init__ checking the kind of the body before its truth value.
Selector_init_StrictBody(h, a, expr_) ==
    LET fail(e) == [exc |-> e, warned |-> FALSE, obj |-> NoSelector, heap |-> h]
        made(root, type, warned) ==
            LET d == IF a.namespaces # None
                     THEN Update(h[1], a.namespaces[1]) ELSE h[1]
            IN  [exc |-> "", warned |-> warned,
                 obj |-> [root |-> root, type |-> type, namespaces |-> Len(h) + 1,
                          expr |-> expr_, text |-> a.text],
                 heap |-> Append(h, d)]
    IN  IF a.type # None /\ a.type[1] \notin TypeTags THEN fail("ValueError")
        ELSE IF a.text # PyNone /\ a.text.ty # "str" THEN fail("TypeError")
        ELSE IF a.text = PyNone /\ a.body.ty # "bytes" THEN fail("TypeError")
        ELSE IF a.text = PyNone /\ ~Truthy(a.body) /\ a.root = NOT_SET
        THEN fail("ValueError")
        ELSE IF a.text # PyNone
        THEN LET rt == get_root_and_type_from_text(a.text.v, a.type)
             IN  made(rt.root, rt.type, a.root # NOT_SET)
        ELSE IF Truthy(a.body)
        THEN LET rt == get_root_and_type_from_bytes(a.body, a.type)
             IN  made(rt.root, rt.type, FALSE)
        ELSE made(a.root, get_root_type(a.root, a.type), FALSE)

\* Selector.__init__(text, type, body, namespaces, root, _expr) with the dict
\* objects h: the exception raised, or the object and the dicts after it.
Selector_init(h, a, expr_) ==
    LET fail(e) == [exc |-> e, warned |-> FALSE, obj |-> NoSelector, heap |-> h]
        made(root, type, warned) ==
            LET d == IF a.namespaces # None
                     THEN Update(h[1], a.namespaces[1]) ELSE h[1]
            IN  [exc |-> "", warned |-> warned,
                 obj |-> [root |-> root, type |-> type, namespaces |-> Len(h) + 1,
                          expr |-> expr_, text |-> a.text],
                 heap |-> Append(h, d)]
    IN  IF a.type # None /\ a.type[1] \notin TypeTags THEN fail("ValueError")
        ELSE IF a.text = PyNone /\ ~Truthy(a.body) /\ a.root = NOT_SET
        THEN fail("ValueError")
        ELSE IF a.text # PyNone /\ a.text.ty # "str" THEN fail("TypeError")
        ELSE IF a.text # PyNone
        THEN LET rt == get_root_and_type_from_text(a.text.v, a.type)
             IN  made(rt.root, rt.type, a.root # NOT_SET)
        ELSE IF Truthy(a.body)
        THEN IF a.body.ty # "bytes" THEN fail("TypeError")
             ELSE LET rt == get_root_and_type_from_bytes(a.body, a.type)
                  IN  made(rt.root, rt.type, FALSE)
        ELSE IF a.root = NOT_SET THEN fail("ValueError")
        ELSE made(a.root, get_root_type(a.root, a.type), FALSE)

\* self.selectorlist_cls(self.__class__(root=x, _expr=query) for x in result)
RECURSIVE Wrap(_, _, _)
Wrap(h, roots, query) ==
    IF roots = <<>> THEN [heap |-> h, objs |-> <<>>]
    ELSE LET one == Selector_init(h, [NoArgs EXCEPT !.root = Head(roots)], <<query>>)
             rest == Wrap(one.heap, Tail(roots), query)
         IN  [heap |-> rest.heap, objs |-> <<one.obj>> \o rest.objs]

\* Selector.xpath without the guard on a root that has no xpath().
Selector_xpath_NoGuard(h, t, s, query, namespaces) ==
    IF ~HasAttr(s.root, "xpath")
    THEN [exc |-> "AttributeError", msg |-> <<>>, roots |-> <<>>]
    ELSE LET nsp == IF namespaces # None
                    THEN Update(h[s.namespaces], namespaces[1])
                    ELSE h[s.namespaces]
             r == Evaluate(t, s.root.v, query, nsp)
         IN  IF r.exc # ""
             THEN [exc |-> "ValueError",
                   msg |-> <<"XPath error: ", r.exc, " in ", query>>,
                   roots |-> <<>>]
             ELSE [exc |-> "", msg |-> <<>>,
                   roots |-> IF r.islist THEN r.list ELSE <<r.scalar>>]

\* Selector.xpath(query, namespaces) up to the evaluation: the exception and
\* its message, or the values to wrap.
Selector_xpath(h, t, s, query, namespaces) ==
    IF ~HasAttr(s.root, "xpath")
    THEN [exc |-> "", msg |-> <<>>, roots |-> <<>>]
    ELSE LET nsp == IF namespaces # None
                    THEN Update(h[s.namespaces], namespaces[1])
                    ELSE h[s.namespaces]
             r == Evaluate(t, s.root.v, query, nsp)
         IN  IF r.exc # ""
             THEN [exc |-> "ValueError",
                   msg |-> <<"XPath error: ", r.exc, " in ", query>>,
                   roots |-> <<>>]
             ELSE [exc |-> "", msg |-> <<>>,
                   roots |-> IF r.islist THEN r.list ELSE <<r.scalar>>]

\* cssselect's parse of the CSS queries of the model: the element, and the
\* pseudo-element (None when the query has none).
CssQueries == {"A", "A::attr(href)", "A::attr()"}
ParseCss(css) ==
    [element |-> "A",
     pseudo |-> CASE css = "A::attr(href)" ->
                       <<[cls |-> "FunctionalPseudoElement", name |-> "attr",
                          arguments |-> <<"href">>]>>
                  [] css = "A::attr()" ->
                       <<[cls |-> "FunctionalPseudoElement", name |-> "attr",
                          arguments |-> <<>>]>>
                  [] OTHER -> None]

\* translator.css_to_xpath(css): the HTML dialect lower-cases element names,
\* the generic one keeps them; the pseudo-element goes through the dispatch,
\* and the prefix and str() of the expression make the XPath.
css_to_xpath(translator, css) ==
    LET p == ParseCss(css)
        el == IF translator = "HTMLTranslator" /\ p.element = "A" THEN "a"
              ELSE p.element
        xpath == OriginalXPathExpr("", el, "")
        r == IF p.pseudo = None THEN [exc |-> "", ret |-> xpath]
             ELSE xpath_pseudo_element(xpath, p.pseudo[1])
    IN  IF r.exc # "" THEN [exc |-> r.exc, ret |-> ""]
        ELSE [exc |-> "", ret |-> "descendant-or-self::" \o Str(r.ret)]

\* etree.tostring(node, method, encoding='unicode', with_tail=False)
RECURSIVE tostring(_, _)
tostring(t, n) ==
    LET RECURSIVE Each(_)
        Each(cs) == IF cs = <<>> THEN "" ELSE tostring(t, Head(cs)) \o Each(Tail(cs))
    IN  "<" \o Tag(n) \o ">" \o Each(t[n]) \o "</" \o Tag(n) \o ">"

\* Selector.get(): _ctgroup[self.type] is evaluated before tostring is called,
\* and a KeyError is not among the exceptions the handler catches.
Selector_get(t, s) ==
    IF s.type \notin DOMAIN ctgroup THEN [exc |-> "KeyError", ret |-> ""]
    ELSE IF s.root.ty = "Element" THEN [exc |-> "", ret |-> tostring(t, s.root.v)]
    ELSE IF s.root = PyBool(TRUE) THEN [exc |-> "", ret |-> "1"]
    ELSE IF s.root = PyBool(FALSE) THEN [exc |-> "", ret |-> "0"]
    ELSE [exc |-> "", ret |-> PyStr(s.root)]

MaxSels == 2

Idle ==
    [op |-> "", self |-> 0, args |-> NoArgs, query |-> "", exc |-> "",
     msg |-> <<>>, ret |-> <<>>, str |-> "", before |-> DocTree, count |-> 0,
     warned |-> FALSE, attrib |-> [ty |-> "", map |-> {}], cls |-> "",
     retcls |-> "", strs |-> <<>>, val |-> PyNone, invoked |-> <<>>,
     re |-> [regex |-> [src |-> "", lit |-> "", opt |-> "", groups |-> 0,
                        groupindex |-> {}],
             default |-> PyNone, replace_entities |-> TRUE]]

SelInit ==
    /\ sels = <<>>
    /\ heap = <<default_namespaces>>
    /\ tree = DocTree
    /\ nslog = <<>>
    /\ last = Idle

\* The dicts the Selectors of sels refer to: the objects of a result list the
\* caller dropped are collected.
Kept ==
    LET used == {1} \cup {sels[i].namespaces : i \in 1..Len(sels)}
    IN  SubSeq(heap, 1, CHOOSE m \in used : \A u \in used : u <= m)

\* Selector(text, type, body, namespaces, root) by the caller.
Construct(a) ==
    \E r \in {Selector_init(Kept, a, None)} :
        /\ r.exc = "" => Len(sels) < MaxSels
        /\ last' = [Idle EXCEPT !.op = "__init__", !.args = a, !.exc = r.exc,
                                !.warned = r.warned, !.before = tree,
                                !.count = Len(sels),
                                !.self = IF r.exc = "" THEN Len(sels) + 1 ELSE 0]
        /\ heap' = r.heap
        /\ sels' = IF r.exc = "" THEN Append(sels, r.obj) ELSE sels
        /\ nslog' = IF r.exc = ""
                    THEN Append(nslog, IF a.namespaces # None
                                       THEN Update(default_namespaces, a.namespaces[1])
                                       ELSE default_namespaces)
                    ELSE nslog
        /\ UNCHANGED <<expr, rx, tree>>

\* sels[i].xpath(query, namespaces)
XpathCall(i, query, namespaces) ==
    \E r \in {Selector_xpath(Kept, tree, sels[i], query, namespaces)} :
      \E w \in {Wrap(Kept, r.roots, query)} :
        /\ last' = [Idle EXCEPT !.op = "xpath", !.self = i, !.query = query,
                                !.args = [NoArgs EXCEPT !.namespaces = namespaces],
                                !.exc = r.exc, !.msg = r.msg, !.ret = w.objs,
                                !.before = tree, !.count = Len(sels)]
        /\ heap' = w.heap
        /\ UNCHANGED <<expr, rx, sels, tree, nslog>>

\* self.xpath(_ctgroup[self.type]['_csstranslator'].css_to_xpath(query)), up
\* to the evaluation; xpath is the translated query.
Selector_css(h, t, s, query) ==
    IF s.type \notin DOMAIN ctgroup
    THEN [exc |-> "KeyError", msg |-> <<>>, roots |-> <<>>, xpath |-> ""]
    ELSE LET x == css_to_xpath(ctgroup[s.type].csstranslator, query)
         IN  IF x.exc # ""
             THEN [exc |-> x.exc, msg |-> <<>>, roots |-> <<>>, xpath |-> ""]
             ELSE LET r == Selector_xpath(h, t, s, x.ret, None)
                  IN  [exc |-> r.exc, msg |-> r.msg, roots |-> r.roots,
                       xpath |-> x.ret]

\* sels[i].css(query)
CssCall(i, query) ==
    \E r \in {Selector_css(Kept, tree, sels[i], query)} :
      \E w \in {Wrap(Kept, r.roots, r.xpath)} :
        /\ last' = [Idle EXCEPT !.op = "css", !.self = i, !.query = query,
                                !.exc = r.exc, !.msg = r.msg, !.ret = w.objs,
                                !.before = tree, !.count = Len(sels)]
        /\ heap' = w.heap
        /\ UNCHANGED <<expr, rx, sels, tree, nslog>>

\* sels[i].get()
GetCall(i) ==
    \E r \in {Selector_get(tree, sels[i])} :
        /\ last' = [Idle EXCEPT !.op = "get", !.self = i, !.exc = r.exc,
                                !.str = r.ret, !.before = tree,
                                !.count = Len(sels)]
        /\ heap' = Kept
        /\ UNCHANGED <<expr, rx, sels, tree, nslog>>

\* sels[i].register_namespace(prefix, uri)
RegisterNamespace(i, prefix, uri) ==
    /\ heap' = [Kept EXCEPT ![sels[i].namespaces] = SetItem(@, prefix, uri)]
    /\ nslog' = [nslog EXCEPT ![i] = SetItem(@, prefix, uri)]
    /\ last' = [Idle EXCEPT !.op = "register_namespace", !.self = i,
                            !.before = tree, !.count = Len(sels)]
    /\ UNCHANGED <<expr, rx, sels, tree>>

\* Selector.remove() / Selector.drop() on the tree t: the exception, and the
\* tree after the call.
Selector_remove(t, s) ==
    IF ~HasAttr(s.root, "getparent") THEN [exc |-> "AttributeError", tree |-> t]
    ELSE LET parent == getparent(t, s.root.v)
         IN  IF parent = None
             THEN [exc |-> "CannotRemoveElementWithoutRoot", tree |-> t]
             ELSE [exc |-> "", tree |-> RemoveChild(t, parent[1], s.root.v)]

\* parent.drop(...): an lxml element has no attribute `drop`.
Selector_drop(t, s) ==
    IF ~HasAttr(s.root, "getparent") THEN [exc |-> "AttributeError", tree |-> t]
    ELSE LET parent == getparent(t, s.root.v)
         IN  IF parent = None
             THEN [exc |-> "CannotDropElementWithoutParent", tree |-> t]
             ELSE IF ~HasAttr(PyElement(parent[1]), "drop")
                  THEN [exc |-> "AttributeError", tree |-> t]
                  ELSE [exc |-> "", tree |-> RemoveChild(t, parent[1], s.root.v)]

\* sels[i].remove()
RemoveCall(i) ==
    \E r \in {Selector_remove(tree, sels[i])} :
        /\ tree' = r.tree
        /\ last' = [Idle EXCEPT !.op = "remove", !.self = i, !.exc = r.exc,
                                !.before = tree, !.count = Len(sels)]
        /\ heap' = Kept
        /\ UNCHANGED <<expr, rx, sels, nslog>>

\* sels[i].drop()
DropCall(i) ==
    \E r \in {Selector_drop(tree, sels[i])} :
        /\ tree' = r.tree
        /\ last' = [Idle EXCEPT !.op = "drop", !.self = i, !.exc = r.exc,
                                !.before = tree, !.count = Len(sels)]
        /\ heap' = Kept
        /\ UNCHANGED <<expr, rx, sels, nslog>>

(***************************************************************************)
(* selector.py: Selector.attrib and SelectorList                           *)
(***************************************************************************)

\* The attributes of the document's elements, as (name, value) pairs.
ElementAttrib(n) == IF Tag(n) = "a" THEN {<<"href", Href(n)>>} ELSE {}

\* A value a property returns: None, or a dict with its (key, value) pairs.
ReturnsNone == [ty |-> "NoneType", map |-> {}]
ReturnsDict(pairs) == [ty |-> "dict", map |-> pairs]

\* Selector.attrib: the body of the property is `pass`, so that it returns
\* None whatever the root is.
Selector_attrib(s) == ReturnsNone

\* SelectorList.attrib: the first element's attrib, {} for an empty list.
SelectorList_attrib(L) ==
    IF L # <<>> THEN Selector_attrib(L[1]) ELSE ReturnsDict({})

\* sels[i].attrib
AttribCall(i) ==
    /\ last' = [Idle EXCEPT !.op = "attrib", !.self = i,
                            !.attrib = Selector_attrib(sels[i]),
                            !.before = tree, !.count = Len(sels)]
    /\ heap' = Kept
    /\ UNCHANGED <<expr, rx, sels, tree, nslog>>

\* The classes of the receiver: SelectorList and a subclass of it.
ListClasses == {"SelectorList", "SubList"}

\* cls(sels).attrib
ListAttribCall(cls) ==
    /\ last' = [Idle EXCEPT !.op = "list.attrib", !.cls = cls,
                            !.attrib = SelectorList_attrib(sels),
                            !.before = tree, !.count = Len(sels)]
    /\ heap' = Kept
    /\ UNCHANGED <<expr, rx, sels, tree, nslog>>

\* A Selector object and a list of a given class, as values flatten is given.
PySelector(o) == [ty |-> "Selector", v |-> "", items |-> <<o>>]
PyList(cls, xs) == [ty |-> cls, v |-> "", items |-> xs]

\* jmespath.search(query, data) for the queries of the model: the current
\* node, a field (None on data that is not an object), a multiselect list.
JQueries == {"@", "a", "[@, @]"}
jmespath_search(query, data) ==
    CASE query = "@" -> data
      [] query = "[@, @]" -> PyList("list", <<data, data>>)
      [] OTHER -> PyNone

\* `result` as the list of the values to wrap
Listed(result) == IF result.ty = "list" THEN result.items ELSE <<result>>

Searched(query, g) ==
    IF g.exc # "" THEN [exc |-> g.exc, roots |-> <<>>]
    ELSE [exc |-> "", roots |-> Listed(jmespath_search(query, PyStrV(g.ret)))]

\* Selector.jmespath(query) up to the wrapping: the exception get() raised, or
\* the values to wrap.
Selector_jmespath(t, s, query) == Searched(query, Selector_get(t, s))

\* Selector.getall()
Selector_getall(t, s) ==
    LET g == Selector_get(t, s)
    IN  [exc |-> g.exc, strs |-> IF g.exc = "" THEN <<g.ret>> ELSE <<>>]

\* x.xpath(query, namespaces=namespaces), x.css(query) or x.jmespath(query)
\* up to the wrapping: the exception, or the values to wrap and the query they
\* are wrapped with.
FromCss(c) == [q |-> c.xpath, exc |-> c.exc, roots |-> c.roots]

SelectorQuery(op, h, t, s, query, namespaces) ==
    CASE op = "xpath" -> [q |-> query] @@ Selector_xpath(h, t, s, query, namespaces)
      [] op = "css" -> FromCss(Selector_css(h, t, s, query))
      [] OTHER -> [q |-> query] @@ Selector_jmespath(t, s, query)

\* The selectorlist_cls of the wrapped results w, and the dicts after the call.
AsSelectorList(exc, w) ==
    [exc |-> exc, heap |-> w.heap,
     list |-> PyList("SelectorList",
                     [i \in 1..Len(w.objs) |-> PySelector(w.objs[i])])]

WrapQuery(h, r) == AsSelectorList(r.exc, Wrap(h, r.roots, r.q))

\* x.op(query) for one element x = s of the list.
SelectorResult(op, h, t, s, query, namespaces) ==
    WrapQuery(h, SelectorQuery(op, h, t, s, query, namespaces))

\* [x.op(query) for x in self]: the first exception ends the comprehension.
RECURSIVE Comprehension(_, _, _, _, _, _)
RECURSIVE ComprehensionFrom(_, _, _, _, _, _, _)

Prepend(x, rest) ==
    [exc |-> rest.exc, heap |-> rest.heap, lists |-> <<x>> \o rest.lists]

\* The comprehension from the element whose result is one.
ComprehensionFrom(op, h, t, L, query, namespaces, one) ==
    IF one.exc # "" THEN [exc |-> one.exc, heap |-> h, lists |-> <<>>]
    ELSE Prepend(one.list,
                 Comprehension(op, one.heap, t, Tail(L), query, namespaces))

Comprehension(op, h, t, L, query, namespaces) ==
    IF L = <<>> THEN [exc |-> "", heap |-> h, lists |-> <<>>]
    ELSE ComprehensionFrom(op, h, t, L, query, namespaces,
                           SelectorResult(op, h, t, Head(L), query, namespaces))

\* cls(xs) of the lists c of a comprehension, or its exception.
ListOf(cls, c, xs) ==
    IF c.exc # "" THEN [exc |-> c.exc, heap |-> c.heap, ret |-> PyNone]
    ELSE [exc |-> "", heap |-> c.heap, ret |-> PyList(cls, xs)]

Flattened(cls, c) == ListOf(cls, c, flatten(c.lists))

\* The broadcast without flatten: the per-element lists are the elements.
SelectorList_query_Nested(op, cls, h, t, L, query, namespaces) ==
    ListOf(cls, Comprehension(op, h, t, L, query, namespaces),
           Comprehension(op, h, t, L, query, namespaces).lists)

\* SelectorList.xpath / css / jmespath on a list L of class cls:
\* self.__class__(flatten([x.op(query) for x in self]))
SelectorList_query(op, cls, h, t, L, query, namespaces) ==
    Flattened(cls, Comprehension(op, h, t, L, query, namespaces))

\* SelectorList.getall(): [x.get() for x in self]
RECURSIVE SelectorList_getall(_, _)
SelectorList_getall(t, L) ==
    IF L = <<>> THEN [exc |-> "", strs |-> <<>>]
    ELSE LET g == Selector_get(t, Head(L))
             rest == SelectorList_getall(t, Tail(L))
         IN  IF g.exc # "" THEN [exc |-> g.exc, strs |-> <<>>]
             ELSE [exc |-> rest.exc,
                   strs |-> IF rest.exc = "" THEN <<g.ret>> \o rest.strs ELSE <<>>]

\* The name under which a call of a list's method is recorded.
ListOp(op) == CASE op = "xpath" -> "list.xpath"
                [] op = "css" -> "list.css"
                [] OTHER -> "list.jmespath"

\* cls(sels).xpath(query, namespaces), .css(query), .jmespath(query)
ListQuery(op, cls, query, namespaces) ==
    \E r \in {SelectorList_query(op, cls, Kept, tree, sels, query, namespaces)} :
        /\ last' = [Idle EXCEPT !.op = ListOp(op), !.cls = cls,
                                !.query = query,
                                !.args = [NoArgs EXCEPT !.namespaces = namespaces],
                                !.exc = r.exc, !.ret = r.ret.items,
                                !.retcls = r.ret.ty,
                                !.before = tree, !.count = Len(sels)]
        /\ heap' = r.heap
        /\ UNCHANGED <<expr, rx, sels, tree, nslog>>

ListXpathCall(cls, query, namespaces) == ListQuery("xpath", cls, query, namespaces)

ListCssCall(cls, query) == ListQuery("css", cls, query, None)

ListJmespathCall(cls, query) == ListQuery("jmespath", cls, query, None)

\* cls(sels).getall()
ListGetallCall(cls) ==
    \E r \in {SelectorList_getall(tree, sels)} :
        /\ last' = [Idle EXCEPT !.op = "list.getall", !.cls = cls,
                                !.exc = r.exc, !.strs = r.strs,
                                !.before = tree, !.count = Len(sels)]
        /\ heap' = Kept
        /\ UNCHANGED <<expr, rx, sels, tree, nslog>>

\* The compiled patterns of the list's callers: a literal, and a literal
\* followed by a group around one optional character, as 'b' and '<(r?)'.
Literal(lit) ==
    [src |-> lit, lit |-> lit, opt |-> "", groups |-> 0, groupindex |-> {}]
OptGroup(lit, c) ==
    [src |-> lit \o "(" \o c \o "?)", lit |-> lit, opt |-> c, groups |-> 1,
     groupindex |-> {}]

ListRegexes == {Literal("b"), OptGroup("<", "r")}

\* regex.finditer(text) for these patterns: the non-overlapping matches from
\* left to right; the group takes part in every match, with '' when the
\* optional character is not there.
RECURSIVE Finditer(_, _, _)
Finditer(regex, text, i) ==
    LET n == Len(regex.lit)
        j == i + n
    IN  IF j - 1 > Len(text) THEN <<>>
        ELSE IF SubSeq(text, i, j - 1) # regex.lit THEN Finditer(regex, text, i + 1)
        ELSE LET g == IF regex.groups = 1 /\ j <= Len(text)
                         /\ SubSeq(text, j, j) = regex.opt
                      THEN regex.opt ELSE ""
             IN  <<[whole |-> regex.lit \o g,
                    groups |-> IF regex.groups = 1 THEN <<PyStrV(g)>> ELSE <<>>]>>
                     \o Finditer(regex, text, j + Len(g))

\* Selector.re(regex, replace_entities): extract_regex on what get() returns.
Selector_re(t, s, regex, replace_entities) ==
    LET g == Selector_get(t, s)
        text == IF replace_entities THEN w3lib_replace_entities(g.ret) ELSE g.ret
    IN  IF g.exc # "" THEN [exc |-> g.exc, ret |-> <<>>]
        ELSE [exc |-> "", ret |-> extract_regex(regex, Finditer(regex, text, 1))]

\* re_first calling re() on every element before it looks at the results.
SelectorList_re_first_Eager(t, L, regex, default, replace_entities) ==
    LET m(i) == Selector_re(t, L[i], regex, replace_entities)
        all == [i \in 1..Len(L) |-> i]
        hit == {i \in 1..Len(L) : m(i).exc # "" \/ m(i).ret # <<>>}
    IN  IF hit = {} THEN [exc |-> "", val |-> default, invoked |-> all]
        ELSE LET k == CHOOSE i \in hit : \A j \in hit : i <= j
             IN  IF m(k).exc # ""
                 THEN [exc |-> m(k).exc, val |-> PyNone, invoked |-> all]
                 ELSE [exc |-> "", val |-> PyStrV(m(k).ret[1]), invoked |-> all]

\* SelectorList.re_first(regex, default, replace_entities): the loop over
\* iflatten(self), whose elements are the Selectors of the list; invoked is the
\* elements re() was called on, in the order of the calls.
SelectorList_re_first(t, L, regex, default, replace_entities) ==
    LET RECURSIVE loop(_)
        loop(i) ==
            IF i > Len(L) THEN [exc |-> "", val |-> default, invoked |-> <<>>]
            ELSE LET m == Selector_re(t, L[i], regex, replace_entities)
                 IN  IF m.exc # ""
                     THEN [exc |-> m.exc, val |-> PyNone, invoked |-> <<i>>]
                     ELSE IF m.ret # <<>>
                     THEN [exc |-> "", val |-> PyStrV(m.ret[1]), invoked |-> <<i>>]
                     ELSE LET rest == loop(i + 1)
                          IN  [rest EXCEPT !.invoked = <<i>> \o @]
    IN  loop(1)

Defaults == {PyNone, PyStrV("dflt")}

\* cls(sels).re_first(regex, default, replace_entities)
ListReFirstCall(cls, regex, default, replace_entities) ==
    \E r \in {SelectorList_re_first(tree, sels, regex, default, replace_entities)} :
        /\ last' = [Idle EXCEPT !.op = "list.re_first", !.cls = cls,
                                !.re = [regex |-> regex, default |-> default,
                                        replace_entities |-> replace_entities],
                                !.exc = r.exc, !.val = r.val,
                                !.invoked = r.invoked,
                                !.before = tree, !.count = Len(sels)]
        /\ heap' = Kept
        /\ UNCHANGED <<expr, rx, sels, tree, nslog>>

\* SelectorList.remove(): `for x in self: x.remove()`; the first exception
\* ends the loop, with the tree as the calls before it left it.
RECURSIVE SelectorList_remove(_, _)
SelectorList_remove(t, L) ==
    IF L = <<>> THEN [exc |-> "", tree |-> t]
    ELSE LET r == Selector_remove(t, Head(L))
         IN  IF r.exc # "" THEN r ELSE SelectorList_remove(r.tree, Tail(L))

\* SelectorList.drop(): `for x in self: x.drop()`
RECURSIVE SelectorList_drop(_, _)
SelectorList_drop(t, L) ==
    IF L = <<>> THEN [exc |-> "", tree |-> t]
    ELSE LET r == Selector_drop(t, Head(L))
         IN  IF r.exc # "" THEN r ELSE SelectorList_drop(r.tree, Tail(L))

\* cls(sels).remove()
ListRemoveCall(cls) ==
    \E r \in {SelectorList_remove(tree, sels)} :
        /\ tree' = r.tree
        /\ last' = [Idle EXCEPT !.op = "list.remove", !.cls = cls,
                                !.exc = r.exc, !.before = tree,
                                !.count = Len(sels)]
        /\ heap' = Kept
        /\ UNCHANGED <<expr, rx, sels, nslog>>

\* cls(sels).drop()
ListDropCall(cls) ==
    \E r \in {SelectorList_drop(tree, sels)} :
        /\ tree' = r.tree
        /\ last' = [Idle EXCEPT !.op = "list.drop", !.cls = cls,
                                !.exc = r.exc, !.before = tree,
                                !.count = Len(sels)]
        /\ heap' = Kept
        /\ UNCHANGED <<expr, rx, sels, nslog>>

(***************************************************************************)
(* The specifications                                                      *)
(***************************************************************************)

Init == ExprIdle /\ RxIdle /\ SelInit

Markup == "<r><a href='u2'><a href='u4'/></a><b/></r>"
Override == [k \in {"re"} |-> "urn:x"]
PerCall == [k \in {"p"} |-> DocNamespace]

\* The caller parsed the document with lxml and builds Selectors on its nodes
\* and on scalar values.
MainCalls ==
    {Args(PyNone, None, PyBytes(""), None, PyElement("n1")),
     Args(PyNone, <<"xml">>, PyBytes(""), <<Override>>, PyElement("n1")),
     Args(PyNone, None, PyBytes(""), None, PyElement("n2")),
     Args(PyNone, <<"json">>, PyBytes(""), None, PyInt("2")),
     Args(PyNone, None, PyBytes(""), None, PyBool(TRUE)),
     Args(PyNone, None, PyBytes(""), None, NOT_SET)}

XQueries == {"*", "string(@href)", "p:*", "*["}

Next ==
    \/ \E a \in MainCalls : Construct(a)
    \/ \E i \in 1..Len(sels), q \in XQueries, ns \in {None, <<PerCall>>} :
         XpathCall(i, q, ns)
    \/ \E i \in 1..Len(sels), q \in CssQueries : CssCall(i, q)
    \/ \E i \in 1..Len(sels) : GetCall(i)
    \/ \E i \in 1..Len(sels) : RegisterNamespace(i, "p", DocNamespace)
    \/ \E i \in 1..Len(sels) : RemoveCall(i)
    \/ \E i \in 1..Len(sels) : DropCall(i)

Spec == Init /\ [][Next]_vars

\* The translator alone.
NextExpr == StrCall \/ PseudoElementCall

InitExpr == expr \in ExprCalls /\ RxIdle /\ SelInit

SpecExpr == InitExpr /\ [][NextExpr]_vars

\* extract_regex alone.
NextRegex == EngineMatch \/ ExtractRegexCall

InitRegex == ExprIdle /\ rx \in RxCalls /\ SelInit

SpecRegex == InitRegex /\ [][NextRegex]_vars

\* Construction alone, over every kind of argument.
InitCalls ==
    {Args(text, type, body, None, root) :
        text \in {PyNone, PyStrV(Markup), PyInt("5")},
        type \in {None, <<"xml">>, <<"bogus">>},
        body \in {PyBytes(""), PyBytes(Markup), PyStrV(""), PyStrV("x")},
        root \in {NOT_SET, PyElement("n2"), PyInt("2")}}

MaxBuilt == 1

NextInit == \E a \in InitCalls : Construct(a) /\ Len(sels') <= MaxBuilt

SpecInit == Init /\ [][NextInit]_vars

\* A SelectorList: the caller builds its elements on nodes of the document and
\* on a decoded JSON value, and sels is the list the operations are called on.
ListCalls ==
    {Args(PyNone, None, PyBytes(""), None, PyElement("n1")),
     Args(PyNone, None, PyBytes(""), None, PyElement("n2")),
     Args(PyNone, None, PyBytes(""), None, PyElement("n4")),
     Args(PyNone, <<"json">>, PyBytes(""), None, PyInt("2"))}

ListXQueries == {"*", "descendant-or-self::a", "p:*", "*["}

NextList ==
    \/ \E a \in ListCalls : Construct(a)
    \/ \E i \in 1..Len(sels) : AttribCall(i)
    \/ \E cls \in ListClasses : ListAttribCall(cls)
    \/ \E cls \in ListClasses, q \in ListXQueries, ns \in {None, <<PerCall>>} :
         ListXpathCall(cls, q, ns)
    \/ \E cls \in ListClasses, q \in CssQueries : ListCssCall(cls, q)
    \/ \E cls \in ListClasses, q \in JQueries : ListJmespathCall(cls, q)
    \/ \E cls \in ListClasses : ListGetallCall(cls)
    \/ \E cls \in ListClasses, regex \in ListRegexes, d \in Defaults,
          flag \in BOOLEAN : ListReFirstCall(cls, regex, d, flag)
    \/ \E cls \in ListClasses : ListRemoveCall(cls)
    \/ \E cls \in ListClasses : ListDropCall(cls)

SpecList == Init /\ [][NextList]_vars

(***************************************************************************)
(* The claims                                                              *)
(***************************************************************************)

\* C1: str() of an extended path expression is the base rendering, then the
\* textnode rule ('*' becomes 'text()', a path ending in '::*/*' has its last 3
\* characters replaced by 'text()', any other path gets '/text()' appended),
\* then the attribute rule (a path ending in '::*/*' loses its last 2
\* characters, and '/@' + attribute is appended); with neither annotation the
\* base rendering is returned unchanged.
C1_StrFollowsRule ==
    (expr.pc = "done" /\ expr.op = "__str__") =>
        LET e == expr.in
            base == e.path \o e.element
                      \o (IF e.condition = "" THEN "" ELSE "[" \o e.condition \o "]")
            n == Len(base)
            idiom(p) == Len(p) >= 5 /\ SubSeq(p, Len(p) - 4, Len(p)) = "::*/*"
            step2 == CASE ~e.textnode -> base
                       [] e.textnode /\ base = "*" -> "text()"
                       [] e.textnode /\ base # "*" /\ idiom(base) ->
                            SubSeq(base, 1, n - 3) \o "text()"
                       [] OTHER -> base \o "/text()"
            step3 == CASE e.attribute = None -> step2
                       [] e.attribute # None /\ idiom(step2) ->
                            SubSeq(step2, 1, Len(step2) - 2) \o "/@" \o e.attribute[1]
                       [] OTHER -> step2 \o "/@" \o e.attribute[1]
        IN  /\ expr.str = step3
            /\ (~e.textnode /\ e.attribute = None) => expr.str = base

\* C1 witness: an attribute on a path ending in the idiom was rendered.
C1_Witness ==
    /\ expr.pc = "done" /\ expr.op = "__str__"
    /\ expr.in.attribute = <<"href">> /\ ~expr.in.textnode
    /\ expr.in.path = "descendant-or-self::*/" /\ expr.in.element = "*"
    /\ expr.in.condition = ""
    /\ expr.str = "descendant-or-self::*/@href"

\* C2: '::attr(name)' with exactly one argument yields an extended path
\* expression with attribute = name, textnode false and the base path of the
\* input; with no argument it raises an expression error and returns no path.
C2_AttrDispatch ==
    (/\ expr.pc = "done" /\ expr.op = "xpath_pseudo_element"
     /\ expr.pseudo.cls = "FunctionalPseudoElement" /\ expr.pseudo.name = "attr") =>
        /\ Len(expr.pseudo.arguments) = 1 =>
              /\ expr.exc = ""
              /\ expr.out.cls = "XPathExpr"
              /\ expr.out.attribute = <<expr.pseudo.arguments[1]>>
              /\ ~expr.out.textnode
              /\ OriginalStr(expr.out) = OriginalStr(expr.in)
        /\ Len(expr.pseudo.arguments) = 0 =>
              /\ expr.exc = "ExpressionError"
              /\ expr.str = ""

\* C8: extract_regex returns, when the pattern has a group named 'extract', that
\* group's capture for each match in match order, the matches in which the
\* group did not participate contributing no entry; else, when it has numbered
\* groups, every group's capture of every match, in match order then group
\* order; else the matched substring of every match, in match order.
C8_ExtractionPolicy ==
    rx.pc = "done" =>
        LET ms == rx.matches
            g == rx.regex.groups
            named == {x \in rx.regex.groupindex : x.name = "extract"}
        IN  IF named # {}
            THEN LET k == (CHOOSE x \in named : TRUE).index
                     took == SelectSeq(ms, LAMBDA m : m.groups[k].ty # "NoneType")
                 IN  rx.out = [i \in 1..Len(took) |-> took[i].groups[k].v]
            ELSE IF g > 0
            THEN /\ Len(rx.out) = Len(ms) * g
                 /\ \A i \in 1..Len(ms), j \in 1..g :
                       ms[i].groups[j].ty # "NoneType" =>
                           rx.out[(i - 1) * g + j] = ms[i].groups[j].v
            ELSE rx.out = [i \in 1..Len(ms) |-> ms[i].whole]

\* C3: css(query) translates the query with the translator of the Selector's
\* type tag, the HTML dialect for 'html' and the generic dialect for every other
\* tag, and returns what xpath() returns for the translated string; on a 'json'
\* or 'text' Selector that is the empty result list, not a failure.
C3_CssDelegates ==
    last.op = "css" =>
        LET s == sels[last.self]
            dialect == IF s.type = "html" THEN "HTMLTranslator"
                       ELSE "GenericTranslator"
            x == css_to_xpath(dialect, last.query)
            r == Selector_xpath(heap, last.before, s, x.ret, None)
        IN  x.exc = "" =>
              /\ last.exc = r.exc
              /\ [k \in 1..Len(last.ret) |-> last.ret[k].root] = r.roots
              /\ s.type \in {"json", "text"} => (last.exc = "" /\ last.ret = <<>>)

\* C4: a successful xpath() wraps a scalar result as one Selector and a
\* node-set as one Selector per node in node order, and every Selector of the
\* result has the type tag and the namespace registry of the Selector queried.
C4_ResultsInherit ==
    (last.op = "xpath" /\ last.exc = "" /\ sels[last.self].root.ty = "Element") =>
        LET s == sels[last.self]
            nsp == IF last.args.namespaces # None
                   THEN Update(heap[s.namespaces], last.args.namespaces[1])
                   ELSE heap[s.namespaces]
            r == Evaluate(last.before, s.root.v, last.query, nsp)
        IN  /\ ~r.islist => (Len(last.ret) = 1 /\ last.ret[1].root = r.scalar)
            /\ r.islist => [k \in 1..Len(last.ret) |-> last.ret[k].root] = r.list
            /\ \A k \in 1..Len(last.ret) :
                  /\ last.ret[k].type = s.type
                  /\ heap[last.ret[k].namespaces] = heap[s.namespaces]

\* C5: the registry of every Selector is the two default entries, overridden by
\* the namespaces it was constructed with and then by the register_namespace
\* calls made on it, in call order; the namespaces of an xpath() call are not
\* stored, and no call changes another Selector's registry or the shared
\* defaults.
C5_RegistryFrame ==
    /\ heap[1] = default_namespaces
    /\ \A i \in 1..Len(sels) : heap[sels[i].namespaces] = nslog[i]
    /\ \A k \in 1..Len(last.ret) : heap[last.ret[k].namespaces] = default_namespaces

\* C5 witness: after an xpath() call with its own namespaces on a Selector
\* built with an override, beside a Selector on which a prefix was registered.
C5_Witness ==
    /\ Len(sels) = 2
    /\ last.op = "xpath" /\ last.args.namespaces = <<PerCall>> /\ last.self = 2
    /\ last.ret # <<>>
    /\ "p" \in DOMAIN heap[sels[1].namespaces]
    /\ "p" \notin DOMAIN heap[sels[2].namespaces]
    /\ heap[sels[2].namespaces]["re"] = "urn:x"

\* C6: xpath() on a root with no tree-evaluable form returns an empty list for
\* every query and never raises; on a tree root, an expression the evaluator
\* rejects raises a value error whose message holds the query text, and no
\* result list is returned.
C6_XpathTotalOrValueError ==
    last.op = "xpath" =>
        LET s == sels[last.self]
        IN  IF s.root.ty # "Element"
            THEN last.exc = "" /\ last.ret = <<>>
            ELSE Evaluate(last.before, s.root.v, last.query,
                          IF last.args.namespaces # None
                          THEN Update(heap[s.namespaces], last.args.namespaces[1])
                          ELSE heap[s.namespaces]).exc # "" =>
                    /\ last.exc = "ValueError"
                    /\ last.query \in Range(last.msg)
                    /\ last.ret = <<>>

\* C6 witness: a malformed query was put to a Selector on a decoded JSON number.
C6_Witness ==
    /\ last.op = "xpath" /\ last.query = "*["
    /\ sels[last.self].root = PyInt("2")
    /\ last.exc = "" /\ last.ret = <<>>

\* C7: get() on a scalar root returns '1' for true, '0' for false and the
\* string form of any other value, without raising, whatever the type tag.
C7_GetTotalOnScalars ==
    (last.op = "get" /\ sels[last.self].root.ty # "Element") =>
        LET root == sels[last.self].root
        IN  /\ last.exc = ""
            /\ last.str = (IF root.ty = "bool"
                           THEN (IF root.v = "True" THEN "1" ELSE "0")
                           ELSE root.v)

\* C9: remove() and drop() on a node with no parent each fail with a
\* parent-missing error, of a different kind for each, and leave the tree as it
\* was; on a node with a parent they detach it and raise nothing.
C9_RemoveDrop ==
    (last.op \in {"remove", "drop"} /\ sels[last.self].root.ty = "Element") =>
        LET n == sels[last.self].root.v
        IN  IF getparent(last.before, n) = None
            THEN /\ last.op = "remove" => last.exc = "CannotRemoveElementWithoutRoot"
                 /\ last.op = "drop" => last.exc = "CannotDropElementWithoutParent"
                 /\ tree = last.before
            ELSE /\ last.exc = ""
                 /\ getparent(tree, n) = None
                 /\ n \notin Range(tree[getparent(last.before, n)[1]])

\* C10 as stated: construction fails on a type outside the enum (value error),
\* on none of text, body and root (value error), on a text that is no string
\* (type error) and on a body that is no byte sequence (type error), empty and
\* falsy bodies included; text with root succeeds with the root of the text.
C10_AnyNonBytesBody ==
    last.op = "__init__" =>
        LET a == last.args
            okType == a.type = None \/ a.type[1] \in TypeTags
        IN  /\ ~okType => last.exc = "ValueError"
            /\ (okType /\ a.text = PyNone /\ a.body = PyBytes("") /\ a.root = NOT_SET)
                  => last.exc = "ValueError"
            /\ (okType /\ a.text # PyNone /\ a.text.ty # "str")
                  => last.exc = "TypeError"
            /\ (okType /\ a.text = PyNone /\ a.body.ty # "bytes")
                  => last.exc = "TypeError"
            /\ (okType /\ a.text.ty = "str" /\ a.body.ty = "bytes" /\ a.root # NOT_SET)
                  => /\ last.exc = ""
                     /\ sels[last.self].root =
                          get_root_and_type_from_text(a.text.v, a.type).root
            /\ last.exc # "" => Len(sels) = last.count

\* C10 amended: as stated, but the type error for a body that is no byte
\* sequence is raised only when the body is truthy and no text is given; a falsy
\* body of any kind counts as no body (a value error without a root, the root
\* otherwise), and a string text wins over any body and any root.
C10_Construction ==
    last.op = "__init__" =>
        LET a == last.args
            okType == a.type = None \/ a.type[1] \in TypeTags
        IN  /\ ~okType => last.exc = "ValueError"
            /\ (okType /\ a.text = PyNone /\ ~Truthy(a.body) /\ a.root = NOT_SET)
                  => last.exc = "ValueError"
            /\ (okType /\ a.text # PyNone /\ a.text.ty # "str")
                  => last.exc = "TypeError"
            /\ (okType /\ a.text = PyNone /\ Truthy(a.body) /\ a.body.ty # "bytes")
                  => last.exc = "TypeError"
            /\ (okType /\ a.text = PyNone /\ ~Truthy(a.body) /\ a.root # NOT_SET)
                  => (last.exc = "" /\ sels[last.self].root = a.root)
            /\ (okType /\ a.text.ty = "str")
                  => /\ last.exc = ""
                     /\ last.warned = (a.root # NOT_SET)
                     /\ sels[last.self].root =
                          get_root_and_type_from_text(a.text.v, a.type).root
            /\ last.exc # "" => (Len(sels) = last.count /\ last.self = 0)
            /\ last.exc = "" => (Len(sels) = last.count + 1 /\ last.self = Len(sels))

\* C10 witness: an empty body that is a string, not bytes, was passed with a
\* root and a text, and the Selector was built on the root of the text.
C10_Witness ==
    /\ last.op = "__init__" /\ last.exc = ""
    /\ last.args.body = PyStrV("")
    /\ last.args.text = PyStrV(Markup) /\ last.args.root = PyElement("n2")
    /\ sels[last.self].root = PyElement(DocRoot)


\* C11: Selector.attrib is the attribute mapping of the bound node when the
\* root is an element and an empty mapping for every other root; it is never
\* a non-mapping value, so that SelectorList.attrib of a non-empty list is a
\* mapping as well.
C11_AttribIsMapping ==
    /\ last.op = "attrib" =>
          last.attrib = IF sels[last.self].root.ty = "Element"
                        THEN ReturnsDict(ElementAttrib(sels[last.self].root.v))
                        ELSE ReturnsDict({})
    /\ last.op = "list.attrib" => last.attrib.ty = "dict"

\* C12: for a list L = [s1..sn], L.css(q), L.xpath(q), L.jmespath(q) and
\* L.getall() are the concatenation, in element order, of the results of
\* s1..sn for the same operation: nothing is dropped, duplicated, reordered or
\* nested, the length is the sum of the lengths, and the result of
\* css/xpath/jmespath is a list of the class of L.  An exception of an
\* element's operation is the exception of the list's.
C12_Broadcast ==
    LET op == CHOOSE o \in {"xpath", "css", "jmespath"} :
                  last.op \in {"list.xpath", "list.css", "list.jmespath"}
                      => ListOp(o) = last.op
        view(h, list) ==
            [i \in 1..Len(list) |->
                LET o == list[i].items[1]
                IN  [root |-> o.root, type |-> o.type, expr |-> o.expr,
                     namespaces |-> h[o.namespaces]]]
        per(i) == SelectorResult(op, heap, tree, sels[i], last.query,
                                 last.args.namespaces)
        get(i) == Selector_getall(tree, sels[i])
        RECURSIVE concat(_), strs(_), total(_)
        concat(i) == IF i > Len(sels) THEN <<>>
                     ELSE view(per(i).heap, per(i).list.items) \o concat(i + 1)
        total(i) == IF i > Len(sels) THEN 0
                    ELSE Len(per(i).list.items) + total(i + 1)
        strs(i) == IF i > Len(sels) THEN <<>> ELSE get(i).strs \o strs(i + 1)
        queried ==
            IF \E i \in 1..Len(sels) : per(i).exc # ""
            THEN LET k == CHOOSE i \in 1..Len(sels) :
                             /\ per(i).exc # ""
                             /\ \A j \in 1..(i - 1) : per(j).exc = ""
                 IN  last.exc = per(k).exc
            ELSE /\ last.exc = ""
                 /\ last.retcls = last.cls
                 /\ \A i \in 1..Len(last.ret) : last.ret[i].ty = "Selector"
                 /\ Len(last.ret) = total(1)
                 /\ view(heap, last.ret) = concat(1)
        gotall ==
            IF \E i \in 1..Len(sels) : get(i).exc # ""
            THEN LET k == CHOOSE i \in 1..Len(sels) :
                             /\ get(i).exc # ""
                             /\ \A j \in 1..(i - 1) : get(j).exc = ""
                 IN  last.exc = get(k).exc
            ELSE last.exc = "" /\ last.strs = strs(1)
    IN  /\ (last.op \in {"list.xpath", "list.css", "list.jmespath"}) => queried
        /\ (last.op = "list.getall") => gotall

\* A list of two elements whose results, of more than one Selector each, were
\* joined by a subclass of SelectorList.
C12_Witness ==
    /\ last.op \in {"list.xpath", "list.css", "list.jmespath"}
    /\ last.cls = "SubList" /\ last.exc = ""
    /\ Len(sels) = 2 /\ sels[1].root # sels[2].root
    /\ Len(last.ret) >= 4

\* C13 as it is stated: re_first scans the elements in list order and returns
\* the first extracted string that is not empty, default when no element
\* yields one, and calls re() on no element after the one that produced the
\* returned string.
C13_FirstNonEmptyString ==
    LET m(i) == Selector_re(tree, sels[i], last.re.regex,
                            last.re.replace_entities).ret
        yields(i) == \E j \in 1..Len(m(i)) : m(i)[j] # ""
        first(i) == m(i)[CHOOSE j \in 1..Len(m(i)) :
                            m(i)[j] # "" /\ \A l \in 1..(j - 1) : m(i)[l] = ""]
        upto(k) == [i \in 1..k |-> i]
    IN  (last.op = "list.re_first" /\ last.exc = "") =>
            IF \E i \in 1..Len(sels) : yields(i)
            THEN LET k == CHOOSE i \in 1..Len(sels) :
                             yields(i) /\ \A j \in 1..(i - 1) : ~yields(j)
                 IN  last.val = PyStrV(first(k)) /\ last.invoked = upto(k)
            ELSE last.val = last.re.default /\ last.invoked = upto(Len(sels))

\* C13: re_first scans the elements in list order and returns the first
\* string of the first element whose re() is a non-empty list, be that string
\* empty or not; it returns default when the list is empty or re() is empty
\* for every element; re() is called on the elements up to that one and on
\* none after it.  An exception of an element's re() ends the scan and is
\* raised.
C13_ReFirst ==
    LET m(i) == Selector_re(tree, sels[i], last.re.regex,
                            last.re.replace_entities)
        stops(i) == m(i).exc # "" \/ m(i).ret # <<>>
        upto(k) == [i \in 1..k |-> i]
    IN  last.op = "list.re_first" =>
            IF \E i \in 1..Len(sels) : stops(i)
            THEN LET k == CHOOSE i \in 1..Len(sels) :
                             stops(i) /\ \A j \in 1..(i - 1) : ~stops(j)
                 IN  /\ last.invoked = upto(k)
                     /\ last.exc = m(k).exc
                     /\ m(k).exc = "" => last.val = PyStrV(m(k).ret[1])
            ELSE /\ last.exc = ""
                 /\ last.val = last.re.default
                 /\ last.invoked = upto(Len(sels))

\* The first of two elements yields strings of which the first is empty: it
\* is returned, and re() was not called on the second element.
C13_Witness ==
    /\ last.op = "list.re_first" /\ last.exc = ""
    /\ Len(sels) = 2
    /\ last.invoked = <<1>>
    /\ last.val = PyStrV("")
    /\ Selector_re(tree, sels[2], last.re.regex, last.re.replace_entities).ret
           # <<>>

\* C14: SelectorList.remove() and SelectorList.drop() work on the elements
\* one at a time in list order, and nothing is rolled back: the first element
\* whose node has no parent raises the parent-missing error of the operation,
\* the nodes of the elements before it are detached and stay so, the nodes of
\* the elements after it are as they were; when no element fails, the node of
\* every element is detached.
C14_NotTransactional ==
    LET node(i) == sels[i].root.v
        missing == IF last.op = "list.remove"
                   THEN "CannotRemoveElementWithoutRoot"
                   ELSE "CannotDropElementWithoutParent"
        RECURSIVE walk(_, _)
        walk(i, t) ==
            IF i > Len(sels) THEN [exc |-> "", tree |-> t]
            ELSE IF getparent(t, node(i)) = None
            THEN [exc |-> missing, tree |-> t]
            ELSE walk(i + 1, RemoveChild(t, getparent(t, node(i))[1], node(i)))
    IN  (/\ last.op \in {"list.remove", "list.drop"}
         /\ \A i \in 1..Len(sels) : sels[i].root.ty = "Element") =>
            /\ last.exc = walk(1, last.before).exc
            /\ tree = walk(1, last.before).tree
            /\ last.exc = "" =>
                  \A i \in 1..Len(sels) : getparent(tree, node(i)) = None
====
